---- MODULE Spec2Model ----
(***************************************************************************)
(* Model of facts_total: WorkflowTotaler (total_workflow.py) and the CLI   *)
(* entry point main (cli.py).  A dataset is a record of labelled arrays;   *)
(* an array is a function from label tuples to values; a missing entry is  *)
(* the value NaN.                                                          *)
(***************************************************************************)
EXTENDS Integers, Sequences, FiniteSets, TLC

\* ---------------------------------------------------------------- bounds
MaxFiles == 2
MaxYear == 4
MaxLoc == 2
MaxDelta == 2
MaxStep == 2
NumSamples == 1

\* ------------------------------------------------------------- constants
\* astype("float32"): coordinates are integers counted in half float32
\* resolutions, so two values inside one resolution step cast to one value.
Float32Ulp == 2

\* np.nan, the missing-value marker: a value no file holds as a number.
NaN == -1
\* An attribute the object does not have (hasattr is False).
Absent == [absent |-> TRUE]

VARIABLES paths_list, files, pyear_start, pyear_end, pyear_step,
          caller, pc, raised, echoed, tagged,
          combined_ds, projections_ds, totaled_ds, output

vars == <<paths_list, files, pyear_start, pyear_end, pyear_step,
          caller, pc, raised, echoed, tagged,
          combined_ds, projections_ds, totaled_ds, output>>

inputs == <<paths_list, files, pyear_start, pyear_end, pyear_step, caller>>

\* ------------------------------------------------------------ sequences
Min(S) == CHOOSE m \in S : \A x \in S : m <= x
Max(S) == CHOOSE m \in S : \A x \in S : m >= x
Range(s) == {s[i] : i \in 1..Len(s)}

RECURSIVE SortedSeq(_)
SortedSeq(S) == IF S = {} THEN <<>>
                ELSE LET m == Min(S) IN <<m>> \o SortedSeq(S \ {m})

\* ----------------------------------------------------------- input files
Samples == 1..NumSamples

\* The path of the i-th --item: a directory per component module.
PathOf(i) == [root |-> "/data", parent |-> [stem |-> i, suffix |-> ".out"],
              name |-> [stem |-> "slr", suffix |-> ".nc"]]

\* The contents of a component projection file.  lat/lon are data variables
\* over locations, sea_level_change over (years, locations, samples).
LatOf(f, l) == 10 * l + f.dlat
LonOf(f, l) == 100 + 10 * l + f.dlon
Cell(y, l, s) == (y - 1) * MaxLoc * NumSamples + (l - 1) * NumSamples + s
RECURSIVE Pow10(_)
Pow10(n) == IF n = 0 THEN 1 ELSE 10 * Pow10(n - 1)
SeaLevelOf(i, y, l, s) == Pow10(i - 1) * Cell(y, l, s)

\* A years axis is strictly increasing and has at least two labels.
YearAxes == {SortedSeq(S) : S \in {T \in SUBSET (1..MaxYear) : Cardinality(T) >= 2}}
LocAxes == {SortedSeq(S) : S \in (SUBSET (1..MaxLoc)) \ {{}}}
FileSpace == {f \in [years : YearAxes, locations : LocAxes,
                     dlat : 0..MaxDelta, dlon : 0..MaxDelta] :
                f.dlat = 0 \/ f.dlon = 0}
FileAttrs(i) == (<<"description", 0>> :> <<"component", i>>)

\* -------------------------------------------------------- preprocess_fn
\* Path(file).parent.stem / Path(file).with_suffix("").name
ProvenanceTag(path) == <<path.parent.stem, path.name.stem>>

\* A slice that drops its upper end.
SelYearsHalfOpen(years, lo, hi) == SelectSeq(years, LAMBDA y : lo <= y /\ y < hi)

\* ds.sel(years=slice(pyear_start, pyear_end)): label slice, both ends kept
SelYears(years, lo, hi) == SelectSeq(years, LAMBDA y : lo <= y /\ y <= hi)

\* ds["years"].diff("years") followed by np.unique
Steps(years) == {years[k + 1] - years[k] : k \in 1..(Len(years) - 1)}

BoundsMismatch(f, lo, hi) ==
    Min(Range(f.years)) # lo \/ Max(Range(f.years)) # hi

StepMismatch(years, st) ==
    Cardinality(Steps(years)) # 1 \/ (CHOOSE d \in Steps(years) : TRUE) # st

\* The years axis after the bounds check of one file.
SubsetYears(f, lo, hi) ==
    IF BoundsMismatch(f, lo, hi) THEN SelYears(f.years, lo, hi) ELSE f.years

\* What preprocess_fn passes to click.echo for file i.  The bounds message
\* is assigned to `message` and never echoed; the step message is echoed.
PreprocessEchoes(i, f, lo, hi, st) ==
    IF StepMismatch(SubsetYears(f, lo, hi), st)
    THEN <<[kind |-> "step_mismatch", file |-> i]>>
    ELSE <<>>

\* An assert that only asks for some step.
UniformStepsLoose(years) == Cardinality(Steps(years)) >= 1

\* assert len(np.unique(step.data)) == 1
UniformSteps(years) == Cardinality(Steps(years)) = 1

\* The dataset preprocess_fn returns for the i-th path (when the assert
\* holds): the file's arrays restricted to the kept years, a length-1 file
\* axis labelled with the provenance tag, a length-1 year_step axis.
Preprocess(i, f, lo, hi) ==
    LET ys == SubsetYears(f, lo, hi) IN
    [file |-> ProvenanceTag(PathOf(i)),
     year_step |-> CHOOSE d \in Steps(ys) : TRUE,
     years |-> ys,
     locations |-> f.locations,
     lat |-> [l \in Range(f.locations) |-> LatOf(f, l)],
     lon |-> [l \in Range(f.locations) |-> LonOf(f, l)],
     sea_level_change |->
        [c \in Range(ys) \X Range(f.locations) \X Samples |->
            SeaLevelOf(i, c[1], c[2], c[3])],
     attrs |-> FileAttrs(i)]

\* ------------------------------------------------------ open_mfdataset
\* xr.open_mfdataset(..., concat_dim="file", combine="nested", join="outer"):
\* every other indexed axis (year_step, years, locations) becomes the sorted
\* union of the files' labels; an entry a file does not cover is NaN; the
\* dataset attributes are the first file's.
Combine(tg) ==
    LET n == Len(tg)
        ysteps == SortedSeq({tg[i].year_step : i \in 1..n})
        years == SortedSeq(UNION {Range(tg[i].years) : i \in 1..n})
        locs == SortedSeq(UNION {Range(tg[i].locations) : i \in 1..n})
        Covers(i, st, y, l) == /\ st = tg[i].year_step
                               /\ y \in Range(tg[i].years)
                               /\ l \in Range(tg[i].locations)
    IN
    [file |-> [i \in 1..n |-> tg[i].file],
     year_step |-> ysteps,
     years |-> years,
     locations |-> locs,
     lat |-> [c \in Range(ysteps) \X (1..n) \X Range(locs) |->
                IF c[1] = tg[c[2]].year_step /\ c[3] \in Range(tg[c[2]].locations)
                THEN tg[c[2]].lat[c[3]] ELSE NaN],
     lon |-> [c \in Range(ysteps) \X (1..n) \X Range(locs) |->
                IF c[1] = tg[c[2]].year_step /\ c[3] \in Range(tg[c[2]].locations)
                THEN tg[c[2]].lon[c[3]] ELSE NaN],
     sea_level_change |->
        [c \in Range(ysteps) \X (1..n) \X Range(years) \X Range(locs) \X Samples |->
            IF Covers(c[2], c[1], c[3], c[4])
            THEN tg[c[2]].sea_level_change[<<c[3], c[4], c[5]>>] ELSE NaN],
     attrs |-> tg[1].attrs]

\* --------------------------------------------------------------- callers
\* main (cli.py) calls get_projections, total_projections,
\* write_totaled_projections.  The staged caller runs each method once the
\* attribute it reads has been set by the method before it.
NextCall(c, call) ==
    IF c = "main"
    THEN CASE call = "get_projections" -> "total_projections"
           [] call = "total_projections" -> "write_totaled_projections"
           [] OTHER -> "done"
    ELSE CASE call = "get_projections" -> "format_projections"
           [] call = "format_projections" -> "total_projections"
           [] call = "total_projections" -> "write_totaled_projections"
           [] OTHER -> "done"

\* ------------------------------------------------------------------ Init
\* The first file carries the reference coordinates; a later file may
\* deviate from them in lat or in lon.
Init ==
    /\ \E n \in 1..MaxFiles :
         /\ paths_list = [i \in 1..n |-> PathOf(i)]
         /\ files \in {fs \in [1..n -> FileSpace] :
                            fs[1].dlat = 0 /\ fs[1].dlon = 0}
    /\ pyear_start \in 1..2
    /\ pyear_end \in (MaxYear - 1)..MaxYear
    /\ pyear_step \in 1..MaxStep
    /\ caller \in {"main", "staged"}
    /\ pc = "get_projections"
    /\ raised = "none"
    /\ echoed = <<>>
    /\ tagged = <<>>
    /\ combined_ds = Absent
    /\ projections_ds = Absent
    /\ totaled_ds = Absent
    /\ output = Absent

\* ------------------------------------------------------- get_projections
\* The first path whose years axis fails the uniformity assert (0 if none).
FirstNonUniform ==
    LET bad == {i \in 1..Len(paths_list) :
                   ~UniformSteps(SubsetYears(files[i], pyear_start, pyear_end))}
    IN IF bad = {} THEN 0 ELSE Min(bad)

RECURSIVE EchoesUpTo(_)
EchoesUpTo(k) ==
    IF k = 0 THEN <<>>
    ELSE EchoesUpTo(k - 1)
         \o PreprocessEchoes(k, files[k], pyear_start, pyear_end, pyear_step)

get_projections ==
    /\ pc = "get_projections"
    /\ LET bad == FirstNonUniform
           n == Len(paths_list)
       IN IF bad = 0
          THEN /\ tagged' = [i \in 1..n |->
                                Preprocess(i, files[i], pyear_start, pyear_end)]
               /\ echoed' = echoed \o EchoesUpTo(n)
               /\ combined_ds' = Combine(tagged')
               /\ pc' = NextCall(caller, "get_projections")
               /\ UNCHANGED raised
          ELSE /\ tagged' = [i \in 1..(bad - 1) |->
                                Preprocess(i, files[i], pyear_start, pyear_end)]
               /\ echoed' = echoed \o EchoesUpTo(bad)
               /\ raised' = "AssertionError: year steps not uniform"
               /\ pc' = "aborted"
               /\ UNCHANGED combined_ds
    /\ UNCHANGED <<inputs, projections_ds, totaled_ds, output>>

\* ---------------------------------------------------- format_projections
\* astype("float32")
AsFloat32(x) == IF x = NaN THEN NaN ELSE (x \div Float32Ulp) * Float32Ulp

\* combined_ds.squeeze(dim="year_step", drop=True) raises ValueError when
\* the axis is longer than one.
CanSqueeze(ds) == Len(ds.year_step) = 1

\* np.unique(combined_ds[coord].sel(locations=loc).values) after the cast
CoordValues(ds, coord, loc) ==
    {AsFloat32(ds[coord][<<ds.year_step[1], i, loc>>]) : i \in DOMAIN ds.file}

\* A check that looks at lat only.
CoordsInvariantLatOnly(ds) ==
    \A k \in 1..Len(ds.locations) :
        Cardinality(CoordValues(ds, "lat", ds.locations[k])) = 1

\* assert len(np.unique(...)) == 1 for every location and for lat and lon
CoordsInvariant(ds) ==
    \A k \in 1..Len(ds.locations) : \A coord \in {"lat", "lon"} :
        Cardinality(CoordValues(ds, coord, ds.locations[k])) = 1

RECURSIVE CubeAttrs(_, _, _)
\* Keys that count from 0.
RECURSIVE CubeAttrsFromZero(_, _, _)
CubeAttrsFromZero(attrs, cubes, k) ==
    IF k > Len(cubes) THEN attrs
    ELSE CubeAttrsFromZero((<<"cube", k - 1>> :> cubes[k]) @@ attrs, cubes, k + 1)

\* combined_ds.attrs.update({f"cube {i}": cube}) with i counting from 1
CubeAttrs(attrs, cubes, k) ==
    IF k > Len(cubes) THEN attrs
    ELSE CubeAttrs((<<"cube", k>> :> cubes[k]) @@ attrs, cubes, k + 1)

\* The dataset format_projections stores as projections_ds.
Formatted(ds) ==
    LET st == ds.year_step[1] IN
    [file |-> ds.file,
     years |-> ds.years,
     locations |-> ds.locations,
     lat |-> [l \in Range(ds.locations) |-> AsFloat32(ds.lat[<<st, 1, l>>])],
     lon |-> [l \in Range(ds.locations) |-> AsFloat32(ds.lon[<<st, 1, l>>])],
     sea_level_change |->
        [c \in (DOMAIN ds.file) \X Range(ds.years) \X Range(ds.locations) \X Samples |->
            ds.sea_level_change[<<st, c[1], c[2], c[3], c[4]>>]],
     attrs |-> CubeAttrs(ds.attrs, ds.file, 1)]

format_projections ==
    /\ pc = "format_projections"
    /\ IF combined_ds = Absent
       THEN /\ raised' = "AttributeError: combined_ds"
            /\ pc' = "aborted"
            /\ UNCHANGED <<echoed, projections_ds>>
       ELSE /\ echoed' = IF Len(combined_ds.year_step) > 1
                         THEN Append(echoed, [kind |-> "year_steps_differ",
                                              file |-> 0])
                         ELSE echoed
            /\ IF ~CanSqueeze(combined_ds)
               THEN /\ raised' = "ValueError: cannot squeeze year_step"
                    /\ pc' = "aborted"
                    /\ UNCHANGED projections_ds
               ELSE IF ~CoordsInvariant(combined_ds)
               THEN /\ raised' = "AssertionError: coordinate varies along file"
                    /\ pc' = "aborted"
                    /\ UNCHANGED projections_ds
               ELSE /\ projections_ds' = Formatted(combined_ds)
                    /\ pc' = NextCall(caller, "format_projections")
                    /\ UNCHANGED raised
    /\ UNCHANGED <<inputs, tagged, combined_ds, totaled_ds, output>>

\* ----------------------------------------------------- total_projections
RECURSIVE SumFiles(_, _, _)
\* A sum that leaves out the first file.
RECURSIVE SumFilesFromSecond(_, _, _)
SumFilesFromSecond(arr, c, k) ==
    IF k <= 1 THEN 0
    ELSE LET v == arr[<<k, c[1], c[2], c[3]>>]
         IN SumFilesFromSecond(arr, c, k - 1) + (IF v = NaN THEN 0 ELSE v)

\* A sum in which a missing entry makes the total missing (skipna=False).
RECURSIVE SumFilesPropagate(_, _, _)
SumFilesPropagate(arr, c, k) ==
    IF k = 0 THEN 0
    ELSE LET v == arr[<<k, c[1], c[2], c[3]>>]
             rest == SumFilesPropagate(arr, c, k - 1)
         IN IF v = NaN \/ rest = NaN THEN NaN ELSE rest + v

\* ds.sum(dim="file"): xarray skips NaN when it sums floating-point data.
SumFiles(arr, c, k) ==
    IF k = 0 THEN 0
    ELSE LET v == arr[<<k, c[1], c[2], c[3]>>]
         IN SumFiles(arr, c, k - 1) + (IF v = NaN THEN 0 ELSE v)

\* The dataset total_projections stores as totaled_ds and returns.
Totaled(ds) ==
    [years |-> ds.years,
     locations |-> ds.locations,
     lat |-> ds.lat,
     lon |-> ds.lon,
     sea_level_change |->
        [c \in Range(ds.years) \X Range(ds.locations) \X Samples |->
            SumFiles(ds.sea_level_change, c, Len(ds.file))],
     var_attrs |-> [units |-> "mm", missing_value |-> NaN],
     attrs |-> ds.attrs]

total_projections ==
    /\ pc = "total_projections"
    /\ IF projections_ds = Absent
       THEN /\ raised' = "AssertionError: No projections dataset found"
            /\ pc' = "aborted"
            /\ UNCHANGED totaled_ds
       ELSE /\ totaled_ds' = Totaled(projections_ds)
            /\ pc' = NextCall(caller, "total_projections")
            /\ UNCHANGED raised
    /\ UNCHANGED <<inputs, echoed, tagged, combined_ds, projections_ds, output>>

\* --------------------------------------------- write_totaled_projections
\* to_netcdf with encoding dtype "f4" for sea_level_change
Written(ds, outpath) ==
    [path |-> outpath,
     dataset |-> [ds EXCEPT !.sea_level_change =
                     [c \in DOMAIN ds.sea_level_change |->
                         AsFloat32(ds.sea_level_change[c])]]]

write_totaled_projections ==
    /\ pc = "write_totaled_projections"
    /\ IF totaled_ds = Absent
       THEN /\ raised' = "AssertionError: No totaled dataset found"
            /\ pc' = "aborted"
            /\ UNCHANGED output
       ELSE /\ output' = Written(totaled_ds, "output_path")
            /\ pc' = NextCall(caller, "write_totaled_projections")
            /\ UNCHANGED raised
    /\ UNCHANGED <<inputs, echoed, tagged, combined_ds, projections_ds, totaled_ds>>

Next ==
    \/ get_projections
    \/ format_projections
    \/ total_projections
    \/ write_totaled_projections

Spec == Init /\ [][Next]_vars

\* =============================================================== claims
NumFiles == Len(paths_list)
LocsOf(i) == Range(files[i].locations)

\* The labels of file i's years axis that lie in [pyear_start, pyear_end].
InRangeYears(i) == {y \in Range(files[i].years) : pyear_start <= y /\ y <= pyear_end}

\* File i's years axis differs from the requested bounds.
OutOfBounds(i) ==
    \/ (\E y \in Range(files[i].years) : y < pyear_start \/ y > pyear_end)
    \/ pyear_start \notin Range(files[i].years)
    \/ pyear_end \notin Range(files[i].years)

\* All files share the years, locations, lat and lon of the first file, the
\* years run from pyear_start to pyear_end, and their step is uniform.
AlignedInputs ==
    /\ \A i \in 1..NumFiles :
          /\ files[i].years = files[1].years
          /\ files[i].locations = files[1].locations
          /\ files[i].dlat = files[1].dlat
          /\ files[i].dlon = files[1].dlon
    /\ files[1].years[1] = pyear_start
    /\ files[1].years[Len(files[1].years)] = pyear_end
    /\ \A k \in 1..(Len(files[1].years) - 1) :
          files[1].years[k + 1] - files[1].years[k] = files[1].years[2] - files[1].years[1]

RECURSIVE InputSum(_, _, _, _)
InputSum(k, y, l, s) ==
    IF k = 0 THEN 0 ELSE InputSum(k - 1, y, l, s) + SeaLevelOf(k, y, l, s)

\* format_projections has been called by the staged caller.
FormatActed ==
    /\ caller = "staged"
    /\ combined_ds # Absent
    /\ pc \notin {"get_projections", "format_projections"}

C2_MainCompletes ==
    (/\ caller = "main"
     /\ AlignedInputs
     /\ files[1].years[2] - files[1].years[1] = pyear_step
     /\ combined_ds # Absent) => raised = "none"

\* C3 (as claimed): after preprocessing, the sink holds the bounds-mismatch
\* diagnostic exactly once for each file out of bounds and never for a file
\* whose bounds match.
BoundsEchoes(i) ==
    Cardinality({k \in 1..Len(echoed) :
                    echoed[k].kind = "bounds_mismatch" /\ echoed[k].file = i})

C3_BoundsDiagnosticOnce ==
    \A i \in 1..Len(tagged) :
        BoundsEchoes(i) = IF OutOfBounds(i) THEN 1 ELSE 0

\* C4 (as claimed): when the files' year steps differ (and nothing else is
\* wrong), format_projections warns and completes: projections_ds is set.
InputsAgreeOnCoords ==
    \A i \in 1..NumFiles :
        /\ files[i].locations = files[1].locations
        /\ files[i].dlat = files[1].dlat
        /\ files[i].dlon = files[1].dlon

C4_StepDivergenceWarnOnly ==
    (FormatActed /\ InputsAgreeOnCoords /\ Len(combined_ds.year_step) > 1) =>
        /\ raised = "none"
        /\ projections_ds # Absent

\* C5 (as claimed): a coordinate some file does not cover totals to the
\* missing-value marker.
MissingAt(y, l, s) ==
    \E i \in DOMAIN projections_ds.file :
        projections_ds.sea_level_change[<<i, y, l, s>>] = NaN

C5_MissingPropagates ==
    totaled_ds # Absent =>
        \A y \in Range(totaled_ds.years) : \A l \in Range(totaled_ds.locations) :
            \A s \in Samples :
                MissingAt(y, l, s) => totaled_ds.sea_level_change[<<y, l, s>>] = NaN

\* C5 (amended): a missing entry counts as zero: the total at a coordinate
\* is the sum of the values of the files that cover it.
RECURSIVE CoveringSum(_, _, _, _)
CoveringSum(k, y, l, s) ==
    IF k = 0 THEN 0
    ELSE CoveringSum(k - 1, y, l, s)
         + (IF y \in InRangeYears(k) /\ l \in LocsOf(k)
            THEN SeaLevelOf(k, y, l, s) ELSE 0)

C5_MissingSkipped ==
    totaled_ds # Absent =>
        \A y \in Range(totaled_ds.years) : \A l \in Range(totaled_ds.locations) :
            \A s \in Samples :
                /\ totaled_ds.sea_level_change[<<y, l, s>>] = CoveringSum(NumFiles, y, l, s)
                /\ totaled_ds.sea_level_change[<<y, l, s>>] # NaN

C5_Witness ==
    /\ totaled_ds # Absent
    /\ \E y \in Range(totaled_ds.years) : \E l \in Range(totaled_ds.locations) :
          \E s \in Samples : MissingAt(y, l, s)

\* C6: a file whose in-range years have unequal successive differences
\* makes get_projections abort with the non-uniform-step error; nothing is
\* combined, formatted, totaled or written.
NonUniform(i) ==
    \E a, b, c, d \in InRangeYears(i) :
        /\ a < b /\ (\A y \in InRangeYears(i) : y <= a \/ y >= b)
        /\ c < d /\ (\A y \in InRangeYears(i) : y <= c \/ y >= d)
        /\ b - a # d - c

C6_NonUniformFatal ==
    (pc # "get_projections" /\ \E i \in 1..NumFiles : NonUniform(i)) =>
        /\ raised = "AssertionError: year steps not uniform"
        /\ pc = "aborted"
        /\ combined_ds = Absent
        /\ projections_ds = Absent
        /\ totaled_ds = Absent
        /\ output = Absent

C6_Witness ==
    /\ pc = "aborted"
    /\ \E i \in 1..NumFiles : NonUniform(i)
    /\ Len(tagged) >= 1

\* C7 (as claimed): two files with different lat or lon at a shared
\* location make format_projections abort with the coordinate error.
CoordsDiffer ==
    \E i, j \in 1..NumFiles : \E l \in LocsOf(i) \cap LocsOf(j) :
        \/ LatOf(files[i], l) # LatOf(files[j], l)
        \/ LonOf(files[i], l) # LonOf(files[j], l)

CoordsDifferAsFloat32 ==
    \E i, j \in 1..NumFiles : \E l \in LocsOf(i) \cap LocsOf(j) :
        \/ LatOf(files[i], l) \div Float32Ulp # LatOf(files[j], l) \div Float32Ulp
        \/ LonOf(files[i], l) \div Float32Ulp # LonOf(files[j], l) \div Float32Ulp

C8_Provenance ==
    /\ projections_ds # Absent =>
          \A i \in 1..NumFiles :
              /\ <<"cube", i>> \in DOMAIN projections_ds.attrs
              /\ projections_ds.attrs[<<"cube", i>>]
                    = <<paths_list[i].parent.stem, paths_list[i].name.stem>>
    /\ totaled_ds # Absent => totaled_ds.attrs = projections_ds.attrs

C8_Witness ==
    /\ NumFiles >= 2
    /\ totaled_ds # Absent
    /\ <<"cube", NumFiles>> \in DOMAIN totaled_ds.attrs

\* C9: the years axis preprocessing returns for a file out of bounds is
\* the file's labels inside [pyear_start, pyear_end], in their order; a
\* file whose bounds match keeps its axis.
C9_SubsetYears ==
    \A i \in 1..Len(tagged) :
        IF OutOfBounds(i)
        THEN /\ Range(tagged[i].years) = InRangeYears(i)
             /\ \A k \in 1..(Len(tagged[i].years) - 1) :
                   tagged[i].years[k] < tagged[i].years[k + 1]
        ELSE tagged[i].years = files[i].years

C9_Witness ==
    \E i \in 1..Len(tagged) :
        /\ OutOfBounds(i)
        /\ Len(tagged[i].years) < Len(files[i].years)
        /\ pyear_end \in Range(tagged[i].years)

\* C10 (as claimed): files that cover different locations but agree on lat
\* and lon wherever they overlap do not make format_projections fail.
C10_CoverageNotFatal ==
    (FormatActed /\ ~CoordsDiffer /\ Len(combined_ds.year_step) = 1) =>
        /\ raised = "none"
        /\ projections_ds # Absent

====
